---- MODULE Spec2Model ----
(***************************************************************************)
(* AnonBoard: the ledger (the AnonBoard Solidity contract) and the client   *)
(* read path over it (BlockchainContext.tsx).                               *)
(*                                                                          *)
(* Spec is the ledger under every transaction; SpecThread is the ledger     *)
(* under createPost and addComment alone, with longer comment threads;      *)
(* SpecClient is a Home page (Home.tsx or its variant part_004) with the    *)
(* viewer's wallet over the ledger, while another actor posts and likes;    *)
(* SpecSession is any of the three Home pages (part_003 too) through page   *)
(* loads, with the interval and the timers; SpecEngine is the provider      *)
(* called directly with any content, connected or not; SpecPeriodic is a    *)
(* Home page left alone after connecting, under fairness of its effects,    *)
(* its interval and its reads.                                              *)
(*                                                                          *)
(* The contract's storage is the ledger state.  Every external function is  *)
(* an operator from a ledger value (and the transaction's sender, block     *)
(* timestamp and arguments) to a receipt: the ledger after the call, the    *)
(* status, the revert reason, the events logged and the value returned.  A  *)
(* reverted call leaves the storage as it was and logs nothing (EVM         *)
(* semantics of require and of checked arithmetic in Solidity ^0.8).        *)
(***************************************************************************)
EXTENDS Integers, Sequences, FiniteSets, TLC

\* ---------------------------------------------------------------- bounds
\* createPost is cut off once MaxPosts posts exist, addComment once
\* MaxComments comments exist (MaxThread under SpecThread), and
\* block.timestamp stops at MaxTime.
MaxPosts == 2
MaxComments == 2
MaxThread == 3
MaxTime == 2

\* SpecFeed lets MaxFeed posts exist.
MaxFeed == 3

\* The page shows at most MaxShown posts to click on, the viewer calls at
\* most MaxTicks handlers, and at most MaxPending of them are in flight.
MaxShown == 3
MaxTicks == 2
MaxPending == 2

\* ---------------------------------------------------------------- inputs
\* msg.sender values, and address(0), the default of an unset address slot.
Actors == {"A", "B"}
ZeroAddress == "0x0"

\* The string arguments tried.  Spec gives createPost the empty string or
\* "Hello" and addComment the empty string or "Hi"; SpecThread gives
\* addComment every string of Contents.
Contents == {"", "Hello", "Hi"}
PostContents == {"", "Hello"}
CommentContents == {"", "Hi"}

\* Keys of the posts / comments mappings that are read or written.  A
\* Solidity mapping is total: a key never written reads as the zero value.
PostKeys == 0..MaxPosts
CommentKeys == 0..(IF MaxThread > MaxComments THEN MaxThread ELSE MaxComments)

VARIABLES
    nextPostId,     \* uint256 public nextPostId
    nextCommentId,  \* uint256 public nextCommentId
    posts,          \* mapping(uint256 => Post)
    comments,       \* mapping(uint256 => Comment)
    hasLiked,       \* mapping(uint256 => mapping(address => bool))
    blockTime,      \* block.timestamp of the block being built
    lastCall,       \* the receipt of the latest transaction
    page,           \* the Home component mounted, "none" for the ledger alone
    account,        \* useActiveAccount()
    totalPosts,     \* data of useReadContract(getTotalPosts)
    viewPosts,      \* const [posts, setPosts] = useState<Post[]>([])
    selectedPost,   \* const [selectedPost, setSelectedPost] = useState(null)
    localStorage,   \* localStorage.getItem('anonboard_posts')
    pending,        \* the handler calls that have not returned
    msTick,         \* milliseconds Date.now() is ahead of the block's second
    lastStep,       \* the latest step of a handler
    error,          \* const [error, setError] = useState<string | null>(null)
    intervalTotal,  \* the totalPosts the setInterval callback's closure holds
    seeded,         \* the posts the mount effect showed (read by properties)
    mounted         \* whether the Home component is mounted

ledgerVars == <<nextPostId, nextCommentId, posts, comments, hasLiked>>
clientVars == <<page, account, totalPosts, viewPosts, selectedPost,
                localStorage, pending, msTick, lastStep, error,
                intervalTotal, seeded, mounted>>
vars == <<nextPostId, nextCommentId, posts, comments, hasLiked, blockTime,
          lastCall, page, account, totalPosts, viewPosts, selectedPost,
          localStorage, pending, msTick, lastStep, error, intervalTotal,
          seeded, mounted>>

\* ---------------------------------------------------------------- values
\* The zero values a mapping yields for a key never written.
ZeroPost ==
    [id |-> 0, author |-> ZeroAddress, content |-> "", likes |-> 0,
     timestamp |-> 0, commentIds |-> <<>>]

ZeroComment ==
    [id |-> 0, postId |-> 0, author |-> ZeroAddress, content |-> "",
     timestamp |-> 0]

\* A function that returns nothing, and JavaScript's null.
Void == [void |-> TRUE]
Null == [null |-> TRUE]

\* An absent value (undefined, null) and a present one.
None == {}
Some(x) == {x}
The(o) == CHOOSE x \in o : TRUE

\* Whether record r has field f.
HasField(r, f) == f \in DOMAIN r

\* The latest step of a handler: which handler, how it went on, and the
\* placeholder id of the call.
Step(handler, step, id) == [handler |-> handler, step |-> step, id |-> id]

\* The state of a page before a wallet connects: nothing shown, nothing
\* cached, no handler called.
ClientOff ==
    /\ account = None
    /\ totalPosts = None
    /\ viewPosts = <<>>
    /\ selectedPost = None
    /\ localStorage = None
    /\ pending = {}
    /\ msTick = 0
    /\ lastStep = Step("none", "none", -1)
    /\ error = None
    /\ intervalTotal = None
    /\ seeded = <<>>
    /\ mounted = TRUE

\* The contract storage as one value.
Ledger ==
    [nextPostId |-> nextPostId, nextCommentId |-> nextCommentId,
     posts |-> posts, comments |-> comments, hasLiked |-> hasLiked]

\* bytes(s).length
BytesLength(s) == Len(s)

\* Receipts.
Ok(L, ret, events) ==
    [state |-> L, status |-> "ok", error |-> "", ret |-> ret, events |-> events]

Revert(L, reason) ==
    [state |-> L, status |-> "reverted", error |-> reason, ret |-> Void,
     events |-> <<>>]

\* ------------------------------------------------------------- contract
\* createPost without its require: empty content is stored like any other.
createPostNoCheck(L, sender, now, _content) ==
    Ok([L EXCEPT
           !.posts[L.nextPostId] =
               [id |-> L.nextPostId, author |-> sender,
                content |-> _content, likes |-> 0, timestamp |-> now,
                commentIds |-> <<>>],
           !.nextPostId = L.nextPostId + 1],
       Void,
       <<[name |-> "PostCreated", postId |-> L.nextPostId,
          author |-> sender, content |-> _content, timestamp |-> now]>>)

\* createPost that stores the post without copying the content argument.
createPostDropsContent(L, sender, now, _content) ==
    IF ~(BytesLength(_content) > 0)
    THEN Revert(L, "Content cannot be empty")
    ELSE Ok([L EXCEPT
                !.posts[L.nextPostId] =
                    [id |-> L.nextPostId, author |-> sender,
                     content |-> "", likes |-> 0, timestamp |-> now,
                     commentIds |-> <<>>],
                !.nextPostId = L.nextPostId + 1],
            Void,
            <<[name |-> "PostCreated", postId |-> L.nextPostId,
               author |-> sender, content |-> _content, timestamp |-> now]>>)

\* createPost without nextPostId++: the next post is stored under the same key.
createPostKeepsCounter(L, sender, now, _content) ==
    IF ~(BytesLength(_content) > 0)
    THEN Revert(L, "Content cannot be empty")
    ELSE Ok([L EXCEPT
                !.posts[L.nextPostId] =
                    [id |-> L.nextPostId, author |-> sender,
                     content |-> _content, likes |-> 0, timestamp |-> now,
                     commentIds |-> <<>>]],
            Void,
            <<[name |-> "PostCreated", postId |-> L.nextPostId,
               author |-> sender, content |-> _content, timestamp |-> now]>>)


\* function createPost(string memory _content) external
createPost(L, sender, now, _content) ==
    IF ~(BytesLength(_content) > 0)
    THEN Revert(L, "Content cannot be empty")
    ELSE Ok([L EXCEPT
                !.posts[L.nextPostId] =
                    [id |-> L.nextPostId, author |-> sender,
                     content |-> _content, likes |-> 0, timestamp |-> now,
                     commentIds |-> <<>>],
                !.nextPostId = L.nextPostId + 1],
            Void,
            <<[name |-> "PostCreated", postId |-> L.nextPostId,
               author |-> sender, content |-> _content, timestamp |-> now]>>)

\* addComment without nextCommentId++: the next comment takes the same id.
addCommentReusesId(L, sender, now, _postId, _content) ==
    IF ~(_postId < L.nextPostId)
    THEN Revert(L, "Post does not exist")
    ELSE IF ~(BytesLength(_content) > 0)
    THEN Revert(L, "Comment cannot be empty")
    ELSE Ok([L EXCEPT
                !.comments[L.nextCommentId] =
                    [id |-> L.nextCommentId, postId |-> _postId,
                     author |-> sender, content |-> _content,
                     timestamp |-> now],
                !.posts[_postId].commentIds =
                    Append(L.posts[_postId].commentIds, L.nextCommentId)],
            Void,
            <<[name |-> "CommentAdded", commentId |-> L.nextCommentId,
               postId |-> _postId, author |-> sender, content |-> _content,
               timestamp |-> now]>>)

\* addComment without the require on _postId: a comment on a post that does
\* not exist is stored.
addCommentNoExistCheck(L, sender, now, _postId, _content) ==
    IF ~(BytesLength(_content) > 0)
    THEN Revert(L, "Comment cannot be empty")
    ELSE Ok([L EXCEPT
                !.comments[L.nextCommentId] =
                    [id |-> L.nextCommentId, postId |-> _postId,
                     author |-> sender, content |-> _content,
                     timestamp |-> now],
                !.posts[_postId].commentIds =
                    Append(L.posts[_postId].commentIds, L.nextCommentId),
                !.nextCommentId = L.nextCommentId + 1],
            Void,
            <<[name |-> "CommentAdded", commentId |-> L.nextCommentId,
               postId |-> _postId, author |-> sender, content |-> _content,
               timestamp |-> now]>>)

\* addComment that also restamps the post it comments on.
addCommentStampsPost(L, sender, now, _postId, _content) ==
    IF ~(_postId < L.nextPostId)
    THEN Revert(L, "Post does not exist")
    ELSE IF ~(BytesLength(_content) > 0)
    THEN Revert(L, "Comment cannot be empty")
    ELSE Ok([L EXCEPT
                !.comments[L.nextCommentId] =
                    [id |-> L.nextCommentId, postId |-> _postId,
                     author |-> sender, content |-> _content,
                     timestamp |-> now],
                !.posts[_postId].commentIds =
                    Append(L.posts[_postId].commentIds, L.nextCommentId),
                !.posts[_postId].timestamp = now,
                !.nextCommentId = L.nextCommentId + 1],
            Void,
            <<[name |-> "CommentAdded", commentId |-> L.nextCommentId,
               postId |-> _postId, author |-> sender, content |-> _content,
               timestamp |-> now]>>)

\* addComment that puts the new id at the head of the post's commentIds.
addCommentPrepends(L, sender, now, _postId, _content) ==
    IF ~(_postId < L.nextPostId)
    THEN Revert(L, "Post does not exist")
    ELSE IF ~(BytesLength(_content) > 0)
    THEN Revert(L, "Comment cannot be empty")
    ELSE Ok([L EXCEPT
                !.comments[L.nextCommentId] =
                    [id |-> L.nextCommentId, postId |-> _postId,
                     author |-> sender, content |-> _content,
                     timestamp |-> now],
                !.posts[_postId].commentIds =
                    <<L.nextCommentId>> \o L.posts[_postId].commentIds,
                !.nextCommentId = L.nextCommentId + 1],
            Void,
            <<[name |-> "CommentAdded", commentId |-> L.nextCommentId,
               postId |-> _postId, author |-> sender, content |-> _content,
               timestamp |-> now]>>)

\* function addComment(uint256 _postId, string memory _content) external
addComment(L, sender, now, _postId, _content) ==
    IF ~(_postId < L.nextPostId)
    THEN Revert(L, "Post does not exist")
    ELSE IF ~(BytesLength(_content) > 0)
    THEN Revert(L, "Comment cannot be empty")
    ELSE Ok([L EXCEPT
                !.comments[L.nextCommentId] =
                    [id |-> L.nextCommentId, postId |-> _postId,
                     author |-> sender, content |-> _content,
                     timestamp |-> now],
                !.posts[_postId].commentIds =
                    Append(L.posts[_postId].commentIds, L.nextCommentId),
                !.nextCommentId = L.nextCommentId + 1],
            Void,
            <<[name |-> "CommentAdded", commentId |-> L.nextCommentId,
               postId |-> _postId, author |-> sender, content |-> _content,
               timestamp |-> now]>>)

\* toggleLike without its require: a like on a post that does not exist is
\* recorded.
toggleLikeNoCheck(L, sender, _postId) ==
    IF L.hasLiked[_postId][sender]
    THEN IF L.posts[_postId].likes - 1 < 0
         THEN Revert(L, "Panic(0x11)")
         ELSE Ok([L EXCEPT
                     !.hasLiked[_postId][sender] = FALSE,
                     !.posts[_postId].likes = L.posts[_postId].likes - 1],
                 Void,
                 <<[name |-> "PostUnliked", postId |-> _postId,
                    user |-> sender]>>)
    ELSE Ok([L EXCEPT
                !.hasLiked[_postId][sender] = TRUE,
                !.posts[_postId].likes = L.posts[_postId].likes + 1],
            Void,
            <<[name |-> "PostLiked", postId |-> _postId, user |-> sender]>>)

\* toggleLike that only ever likes: a second call by the same sender finds
\* the flag set and leaves it set.
toggleLikeNeverUnlikes(L, sender, _postId) ==
    IF ~(_postId < L.nextPostId)
    THEN Revert(L, "Post does not exist")
    ELSE Ok([L EXCEPT
                !.hasLiked[_postId][sender] = TRUE,
                !.posts[_postId].likes =
                    IF L.hasLiked[_postId][sender]
                    THEN L.posts[_postId].likes
                    ELSE L.posts[_postId].likes + 1],
            Void,
            <<[name |-> "PostLiked", postId |-> _postId, user |-> sender]>>)

\* toggleLike as the client counts likes: the flag flips but the count only
\* ever grows.
toggleLikeBlindIncrement(L, sender, _postId) ==
    IF ~(_postId < L.nextPostId)
    THEN Revert(L, "Post does not exist")
    ELSE Ok([L EXCEPT
                !.hasLiked[_postId][sender] = ~L.hasLiked[_postId][sender],
                !.posts[_postId].likes = L.posts[_postId].likes + 1],
            Void,
            <<[name |-> IF L.hasLiked[_postId][sender]
                        THEN "PostUnliked" ELSE "PostLiked",
               postId |-> _postId, user |-> sender]>>)

\* toggleLike keeping one flag per post: the call flips the flag of every
\* actor.
toggleLikeSharedFlag(L, sender, _postId) ==
    IF ~(_postId < L.nextPostId)
    THEN Revert(L, "Post does not exist")
    ELSE IF L.hasLiked[_postId][sender]
    THEN IF L.posts[_postId].likes - 1 < 0
         THEN Revert(L, "Panic(0x11)")
         ELSE Ok([L EXCEPT
                     !.hasLiked[_postId] = [a \in Actors |-> FALSE],
                     !.posts[_postId].likes = L.posts[_postId].likes - 1],
                 Void,
                 <<[name |-> "PostUnliked", postId |-> _postId,
                    user |-> sender]>>)
    ELSE Ok([L EXCEPT
                !.hasLiked[_postId] = [a \in Actors |-> TRUE],
                !.posts[_postId].likes = L.posts[_postId].likes + 1],
            Void,
            <<[name |-> "PostLiked", postId |-> _postId, user |-> sender]>>)

\* toggleLike whose like branch sets the flag and leaves the count.
toggleLikeFlagOnly(L, sender, _postId) ==
    IF ~(_postId < L.nextPostId)
    THEN Revert(L, "Post does not exist")
    ELSE IF L.hasLiked[_postId][sender]
    THEN IF L.posts[_postId].likes - 1 < 0
         THEN Revert(L, "Panic(0x11)")
         ELSE Ok([L EXCEPT
                     !.hasLiked[_postId][sender] = FALSE,
                     !.posts[_postId].likes = L.posts[_postId].likes - 1],
                 Void,
                 <<[name |-> "PostUnliked", postId |-> _postId,
                    user |-> sender]>>)
    ELSE Ok([L EXCEPT !.hasLiked[_postId][sender] = TRUE],
            Void,
            <<[name |-> "PostLiked", postId |-> _postId, user |-> sender]>>)


\* toggleLike with the two emit statements exchanged.
toggleLikeSwappedEvents(L, sender, _postId) ==
    IF ~(_postId < L.nextPostId)
    THEN Revert(L, "Post does not exist")
    ELSE IF L.hasLiked[_postId][sender]
    THEN IF L.posts[_postId].likes - 1 < 0
         THEN Revert(L, "Panic(0x11)")
         ELSE Ok([L EXCEPT
                     !.hasLiked[_postId][sender] = FALSE,
                     !.posts[_postId].likes = L.posts[_postId].likes - 1],
                 Void,
                 <<[name |-> "PostLiked", postId |-> _postId,
                    user |-> sender]>>)
    ELSE Ok([L EXCEPT
                !.hasLiked[_postId][sender] = TRUE,
                !.posts[_postId].likes = L.posts[_postId].likes + 1],
            Void,
            <<[name |-> "PostUnliked", postId |-> _postId, user |-> sender]>>)

\* function toggleLike(uint256 _postId) external
\* likes -= 1 is checked arithmetic: below zero it panics and the call reverts.
toggleLike(L, sender, _postId) ==
    IF ~(_postId < L.nextPostId)
    THEN Revert(L, "Post does not exist")
    ELSE IF L.hasLiked[_postId][sender]
    THEN IF L.posts[_postId].likes - 1 < 0
         THEN Revert(L, "Panic(0x11)")
         ELSE Ok([L EXCEPT
                     !.hasLiked[_postId][sender] = FALSE,
                     !.posts[_postId].likes = L.posts[_postId].likes - 1],
                 Void,
                 <<[name |-> "PostUnliked", postId |-> _postId,
                    user |-> sender]>>)
    ELSE Ok([L EXCEPT
                !.hasLiked[_postId][sender] = TRUE,
                !.posts[_postId].likes = L.posts[_postId].likes + 1],
            Void,
            <<[name |-> "PostLiked", postId |-> _postId, user |-> sender]>>)

\* getComments filling the result from the last id to the first.
getCommentsNewestFirst(L, _postId) ==
    IF ~(_postId < L.nextPostId)
    THEN Revert(L, "Post does not exist")
    ELSE LET ids == L.posts[_postId].commentIds
             result == [i \in 1..Len(ids) |-> L.comments[ids[Len(ids) + 1 - i]]]
         IN  Ok(L, result, <<>>)

\* function getComments(uint256 _postId) external view returns (Comment[] memory)
getComments(L, _postId) ==
    IF ~(_postId < L.nextPostId)
    THEN Revert(L, "Post does not exist")
    ELSE LET ids == L.posts[_postId].commentIds
             result == [i \in 1..Len(ids) |-> L.comments[ids[i]]]
         IN  Ok(L, result, <<>>)

\* getTotalPosts returning the last id assigned instead of the count.
getTotalPostsLastId(L) == Ok(L, L.nextPostId - 1, <<>>)

\* function getTotalPosts() external view returns (uint256)
getTotalPosts(L) == Ok(L, L.nextPostId, <<>>)

\* The getter Solidity generates for `mapping(uint256 => Post) public posts`:
\* it never reverts, yields the zero struct for a key never written, and
\* leaves out the array member commentIds.
postsGetter(L, key) ==
    LET p == L.posts[key]
    IN  Ok(L, <<p.id, p.author, p.content, p.likes, p.timestamp>>, <<>>)

\* --------------------------------------------------------------- client
\* JavaScript Number(bigint).  It is exact below 2^53; every integer of this
\* model is below 2^31, so the conversion leaves each of them as it is.
Number(n) == n

\* BlockchainContext.tsx getPost: null without a contract handle or when
\* readContract throws (rpcOk = FALSE), else the five fields of the getter.
getPost(L, hasContract, rpcOk, postId) ==
    IF ~hasContract THEN Null
    ELSE IF ~rpcOk THEN Null
    ELSE LET postData == postsGetter(L, postId).ret
         IN  [id |-> Number(postData[1]),
              author |-> postData[2],
              content |-> postData[3],
              likes |-> Number(postData[4]),
              timestamp |-> Number(postData[5])]

\* -------------------------------------------------------------- actions
\* The receipt of a transaction: what was called and what came of it.  The
\* arguments of a successful call are in its event.
Receipt(method, r) ==
    [method |-> method, status |-> r.status, error |-> r.error,
     ret |-> r.ret, events |-> r.events]

\* A transaction ends: the storage becomes the receipt's, the receipt is kept.
Commit(method, r) ==
    /\ nextPostId' = r.state.nextPostId
    /\ nextCommentId' = r.state.nextCommentId
    /\ posts' = r.state.posts
    /\ comments' = r.state.comments
    /\ hasLiked' = r.state.hasLiked
    /\ lastCall' = Receipt(method, r)
    /\ UNCHANGED blockTime

\* The contract as deployed: every slot zero.
EmptyLedger ==
    [nextPostId |-> 0, nextCommentId |-> 0,
     posts |-> [k \in PostKeys |-> ZeroPost],
     comments |-> [k \in CommentKeys |-> ZeroComment],
     hasLiked |-> [k \in PostKeys |-> [a \in Actors |-> FALSE]]]

Init ==
    /\ nextPostId = EmptyLedger.nextPostId
    /\ nextCommentId = EmptyLedger.nextCommentId
    /\ posts = EmptyLedger.posts
    /\ comments = EmptyLedger.comments
    /\ hasLiked = EmptyLedger.hasLiked
    /\ blockTime = 1
    /\ lastCall = Receipt("constructor", Ok(EmptyLedger, Void, <<>>))
    /\ page = "none"
    /\ ClientOff

\* A transaction calling createPost, while fewer than `bound` posts exist.
CreatePostUpTo(bound, sender, _content) ==
    LET r == createPost(Ledger, sender, blockTime, _content)
    IN  /\ r.status = "ok" => nextPostId < bound
        /\ Commit("createPost", r)
        /\ UNCHANGED clientVars

\* A transaction calling createPost.
CreatePost(sender, _content) == CreatePostUpTo(MaxPosts, sender, _content)

\* A transaction calling addComment, while fewer than `bound` comments exist.
AddCommentUpTo(bound, sender, _postId, _content) ==
    LET r == addComment(Ledger, sender, blockTime, _postId, _content)
    IN  /\ r.status = "ok" => nextCommentId < bound
        /\ Commit("addComment", r)
        /\ UNCHANGED clientVars

AddComment(sender, _postId, _content) ==
    AddCommentUpTo(MaxComments, sender, _postId, _content)

\* A transaction calling toggleLike.
ToggleLike(sender, _postId) ==
    /\ Commit("toggleLike", toggleLike(Ledger, sender, _postId))
    /\ UNCHANGED clientVars

\* A new block: block.timestamp grows.
Mine ==
    /\ blockTime < MaxTime
    /\ blockTime' = blockTime + 1
    /\ UNCHANGED <<ledgerVars, lastCall, clientVars>>

Next ==
    \/ \E a \in Actors, c \in PostContents : CreatePost(a, c)
    \/ \E a \in Actors, p \in PostKeys, c \in CommentContents :
          AddComment(a, p, c)
    \/ \E a \in Actors, p \in PostKeys : ToggleLike(a, p)
    \/ Mine

Spec == Init /\ [][Next]_vars

\* The ledger under createPost and addComment alone: threads of up to
\* MaxThread comments, of any content, over the posts.
NextThread ==
    \/ \E a \in Actors, c \in PostContents : CreatePost(a, c)
    \/ \E a \in Actors, p \in PostKeys, c \in Contents :
          AddCommentUpTo(MaxThread, a, p, c)
    \/ Mine

SpecThread == Init /\ [][NextThread]_vars

\* ------------------------------------------------------------ the client
\* The Home page over BlockchainContext: the posts it shows (viewPosts),
\* the handlers in flight with what their closures captured, and the cache
\* in localStorage.  page is the Home component that is mounted: Home.tsx,
\* or its variant part_004, which reloads after a confirmed transaction and
\* updates its state from the current value instead of the captured one.

\* The wallet of the viewer and the Home components.
Viewer == "A"
Pages == {"Home.tsx", "part_004"}
SessionPages == Pages \cup {"part_003"}

\* The pages whose handlers compute from the posts their closure captured
\* (part_004 computes from the current ones), and the pages that set an
\* interval up.
ClosurePages == {"Home.tsx", "part_003"}
TimerPages == {"part_003", "part_004"}

\* Date.now() is in milliseconds: Math.floor(Date.now() / 1000)
MsPerSecond == 1000

\* Date.now() when the block being built has timestamp bt and tick
\* milliseconds of that second have passed.
DateNow(bt, tick) == bt * MsPerSecond + tick

\* p.id of every entry of a list of posts.
PostIds(ps) == {ps[i].id : i \in DOMAIN ps}

\* post.comments || []
CommentsOf(post) == IF HasField(post, "comments") THEN post.comments ELSE <<>>

\* { ...post, comments: cs }
WithComments(post, cs) ==
    [id |-> post.id, author |-> post.author, content |-> post.content,
     likes |-> post.likes, timestamp |-> post.timestamp, comments |-> cs]

\* Math.max(0, n)
MathMax0(n) == IF n > 0 THEN n ELSE 0

\* Array.prototype.sort((a, b) => b.timestamp - a.timestamp): a stable sort,
\* newest first; entries of equal timestamp keep their order.
RECURSIVE SortByTimestampDesc(_)
SortByTimestampDesc(s) ==
    IF s = <<>> THEN <<>>
    ELSE LET sorted == SortByTimestampDesc(SubSeq(s, 1, Len(s) - 1))
             x == s[Len(s)]
             k == Cardinality({i \in DOMAIN sorted :
                                  sorted[i].timestamp >= x.timestamp})
         IN  SubSeq(sorted, 1, k) \o <<x>> \o SubSeq(sorted, k + 1, Len(sorted))

\* BlockchainContext.tsx getAllPosts.  total is the totalPosts the closure
\* holds (None while the hook has no data), failed the ids whose read throws.
getAllPosts(L, hasContract, total, failed) ==
    IF ~hasContract \/ total = None \/ The(total) = 0 THEN <<>>
    ELSE LET n == Number(The(total))
             results == [i \in 1..n |-> getPost(L, hasContract, i \notin failed, i)]
             NotNull(p) == p # Null
         IN  SortByTimestampDesc(SelectSeq(results, NotNull))

\* BlockchainContext.tsx getComments: [] without a contract handle or when
\* readContract throws, else the comments of the contract's getComments in
\* the order returned, each with its five fields.
blockchainGetComments(L, hasContract, rpcOk, postId) ==
    LET r == getComments(L, postId)
    IN  IF ~hasContract \/ ~rpcOk \/ r.status # "ok" THEN <<>>
        ELSE [k \in DOMAIN r.ret |->
                 [id |-> Number(r.ret[k].id),
                  postId |-> Number(r.ret[k].postId),
                  author |-> r.ret[k].author,
                  content |-> r.ret[k].content,
                  timestamp |-> Number(r.ret[k].timestamp)]]

\* handleAddComment with the optimistic comment put first.
handleAddComment_optimisticFirst(ps, op) ==
    [i \in DOMAIN ps |->
        IF ps[i].id = op.postId
        THEN WithComments(ps[i], <<op.optimistic>> \o CommentsOf(ps[i]))
        ELSE ps[i]]


\* PostCard.tsx: <LikeButton likes={post.likes} isLiked={false} ... />
PostCard_isLiked(post) == FALSE
PostCard_likes(post) == post.likes

\* The entry of a list of posts with id p: Array.prototype.find, or None.
Find(ps, p) ==
    LET at == {i \in DOMAIN ps : ps[i].id = p}
    IN  IF at = {} THEN None
        ELSE Some(ps[CHOOSE i \in at : \A j \in at : i <= j])

\* optimisticPost with the seconds of its timestamp as id.
optimisticPostIdInSeconds(address, now, content) ==
    [id |-> now \div MsPerSecond, author |-> address, content |-> content,
     likes |-> 0, timestamp |-> now \div MsPerSecond, comments |-> <<>>]


\* const optimisticPost = { id: Date.now(), ... }
optimisticPost(address, now, content) ==
    [id |-> now, author |-> address, content |-> content, likes |-> 0,
     timestamp |-> now \div MsPerSecond, comments |-> <<>>]

\* const optimisticComment = { id: Date.now(), postId, ... }
optimisticComment(address, now, postId, content) ==
    [id |-> now, postId |-> postId, author |-> address, content |-> content,
     timestamp |-> now \div MsPerSecond]

\* handleCreatePost, the optimistic update: [optimisticPost, ...posts]
handleCreatePost_optimistic(ps, op) == <<op.optimistic>> \o ps

\* The catch of handleCreatePost with the filter left out.
handleCreatePost_catchKeeps(pg, cur, op) == cur

\* handleCreatePost, catch.  Home.tsx filters the posts its closure
\* captured, part_004 the current ones (setPosts(prev => ...)).
handleCreatePost_catch(pg, cur, op) ==
    LET base == IF pg \in ClosurePages THEN op.posts ELSE cur
        Keep(p) == p.id # op.optimistic.id
    IN  SelectSeq(base, Keep)

\* handleAddComment, the optimistic update of the posts.
handleAddComment_optimistic(ps, op) ==
    [i \in DOMAIN ps |->
        IF ps[i].id = op.postId
        THEN WithComments(ps[i], Append(CommentsOf(ps[i]), op.optimistic))
        ELSE ps[i]]

\* handleAddComment, the optimistic update of selectedPost.
handleAddComment_selected(sel, op) ==
    IF sel # None /\ The(sel).id = op.postId
    THEN Some(WithComments(The(sel),
                           Append(CommentsOf(The(sel)), op.optimistic)))
    ELSE sel

\* handleAddComment, catch: post.comments?.filter(c => c.id !== ...)
handleAddComment_catch(pg, cur, op) ==
    LET base == IF pg \in ClosurePages THEN op.posts ELSE cur
        Keep(c) == c.id # op.optimistic.id
    IN  [i \in DOMAIN base |->
            IF base[i].id = op.postId /\ HasField(base[i], "comments")
            THEN WithComments(base[i], SelectSeq(base[i].comments, Keep))
            ELSE base[i]]

\* handleToggleLike, the optimistic update: likes: post.likes + 1
handleToggleLike_optimistic(ps, op) ==
    [i \in DOMAIN ps |->
        IF ps[i].id = op.postId
        THEN [ps[i] EXCEPT !.likes = ps[i].likes + 1]
        ELSE ps[i]]

\* handleToggleLike, catch: likes: Math.max(0, post.likes - 1), over the
\* captured posts in Home.tsx and over the current ones in part_004.
handleToggleLike_catch(pg, cur, op) ==
    LET base == IF pg \in ClosurePages THEN op.posts ELSE cur
    IN  [i \in DOMAIN base |->
            IF base[i].id = op.postId
            THEN [base[i] EXCEPT !.likes = MathMax0(base[i].likes - 1)]
            ELSE base[i]]

\* The optimistic update and the catch of the handler that op is a call of.
Optimistic(ps, op) ==
    CASE op.kind = "createPost" -> handleCreatePost_optimistic(ps, op)
      [] op.kind = "addComment" -> handleAddComment_optimistic(ps, op)
      [] op.kind = "toggleLike" -> handleToggleLike_optimistic(ps, op)

Catch(pg, cur, op) ==
    CASE op.kind = "createPost" -> handleCreatePost_catch(pg, cur, op)
      [] op.kind = "addComment" -> handleAddComment_catch(pg, cur, op)
      [] op.kind = "toggleLike" -> handleToggleLike_catch(pg, cur, op)

\* The three mutating operations of the client, and the contents tried.
HandlerKinds == {"createPost", "addComment", "toggleLike"}
ClientContents == {"", " ", "Hello"}

\* The error of the provider that stands for "no identity connected".
Unauthenticated == "Wallet not connected"

\* String.prototype.trim, on the strings tried: " " is all whitespace.
Trim(s) == IF s = " " THEN "" ELSE s

\* createPost / toggleLike / addComment without the check of accountAddress.
blockchainThrowsNoAccountCheck(kind, hasContract, accountAddress, content) ==
    IF ~hasContract THEN Some("Contract not initialized")
    ELSE IF kind = "createPost" /\ Trim(content) = ""
    THEN Some("Post content cannot be empty")
    ELSE IF kind = "addComment" /\ Trim(content) = ""
    THEN Some("Comment content cannot be empty")
    ELSE None


\* createPost / toggleLike / addComment without the checks of the content.
blockchainThrowsNoContentCheck(kind, hasContract, accountAddress, content) ==
    IF ~hasContract THEN Some("Contract not initialized")
    ELSE IF accountAddress = None THEN Some("Wallet not connected")
    ELSE None


\* BlockchainContext.tsx createPost / toggleLike / addComment, the throws
\* ahead of the try: the message thrown, or None when the call goes on to
\* sendTransaction.  toggleLike has no content to check.
blockchainThrows(kind, hasContract, accountAddress, content) ==
    IF ~hasContract THEN Some("Contract not initialized")
    ELSE IF accountAddress = None THEN Some("Wallet not connected")
    ELSE IF kind = "createPost" /\ Trim(content) = ""
    THEN Some("Post content cannot be empty")
    ELSE IF kind = "addComment" /\ Trim(content) = ""
    THEN Some("Comment content cannot be empty")
    ELSE None

\* The number of sendTransaction calls one call of createPost / toggleLike /
\* addComment makes: one, after the throws.
blockchainSends(kind, hasContract, accountAddress, content) ==
    IF blockchainThrows(kind, hasContract, accountAddress, content) = None
    THEN 1 ELSE 0

\* The catch of createPost with setError left out.
blockchainErrorSilent(message) == None

\* The error the provider shows once sendTransaction has thrown an error of
\* the given message: the catch sets err?.message || 'Failed to ...', then
\* the effect on transactionError sets
\* transactionError.message || 'Transaction failed'.
blockchainError(message) ==
    Some(IF message # "" THEN message ELSE "Transaction failed")

\* err.message of a failed sendTransaction.
FailureMessages == {"", "User rejected"}

\* A call of a handler: its arguments, the optimistic entry it made, what
\* its closure captured (posts, selectedPost, and totalPosts inside
\* getAllPosts), how far it has got, the sendTransaction calls it has made
\* and, once the transaction is in, the id the ledger assigned.  part_004
\* never reads the captured posts.
Op(pg, kind, postId, content, optimistic, ps, sel, total) ==
    [kind |-> kind, postId |-> postId, content |-> content,
     optimistic |-> optimistic,
     posts |-> IF pg \in ClosurePages THEN ps ELSE <<>>,
     selectedPost |-> sel, total |-> total,
     stage |-> "submitting", ledgerId |-> -1]

\* A call of loadPosts, waiting for getAllPosts.
LoadPostsOp(total) ==
    [kind |-> "loadPosts", postId |-> -1, content |-> "",
     optimistic |-> [id |-> -1],
     posts |-> <<>>, selectedPost |-> None, total |-> total,
     stage |-> "reloading", ledgerId |-> -1]

\* Whether op is inside loadPosts (isLoadingPosts): handleAddComment of
\* part_004 calls getAllPosts itself.
InLoadPosts(pg, op) ==
    op.stage = "reloading" /\ ~(op.kind = "addComment" /\ pg = "part_004")

\* const isLoading = isLoadingPosts || isTransactionPending
isLoading ==
    \E op \in pending : op.stage = "submitting" \/ InLoadPosts(page, op)

\* The first lines of part_004's loadPosts: show the cached posts, if any.
\* The loadPosts of Home.tsx and part_003 has no such lines.
loadPosts_cached(pg, cur, item) ==
    IF pg = "part_004" /\ item # None THEN The(item) ELSE cur

\* loadPosts with the posts read put after the ones shown.
loadPosts_doneMerges(cur, fetchedPosts) == cur \o fetchedPosts

\* loadPosts once getAllPosts has resolved: setPosts(fetchedPosts)
loadPosts_done(cur, fetchedPosts) == fetchedPosts

\* A state setter of the component (setPosts, setSelectedPost) called by
\* code that is still running: React drops the update once the component
\* is unmounted.
setState(isMounted, cur, new) == IF isMounted THEN new ELSE cur

\* The mount effect: setPosts(JSON.parse(cachedPosts)) if there is a cache.
\* JSON.stringify and JSON.parse give back the posts as they were: numbers,
\* strings and arrays of them.
mount_seed(item) == IF item # None THEN The(item) ELSE <<>>

\* The wallet connects: useEffect(() => { if (account) loadPosts() }, [account]),
\* and, in part_003 and part_004, the effect that sets the interval up runs
\* again: its callback holds the getAllPosts of this render.
Connect ==
    /\ mounted
    /\ account = None
    /\ account' = Some([address |-> Viewer])
    /\ viewPosts' = loadPosts_cached(page, viewPosts, localStorage)
    /\ pending' = pending \cup {LoadPostsOp(totalPosts)}
    /\ intervalTotal' = IF page \in TimerPages THEN totalPosts ELSE None
    /\ lastStep' = Step("loadPosts", "start", -1)
    /\ UNCHANGED <<page, totalPosts, selectedPost, localStorage, msTick,
                   error, seeded, mounted, ledgerVars, blockTime, lastCall>>

\* useReadContract(getTotalPosts) gets data: the first fetch, or a refetch.
Refetch ==
    /\ totalPosts # Some(nextPostId)
    /\ totalPosts' = Some(nextPostId)
    /\ UNCHANGED <<page, account, viewPosts, selectedPost, localStorage,
                   pending, msTick, lastStep, error, intervalTotal, seeded, mounted,
                   ledgerVars, blockTime, lastCall>>

\* onViewComments={(post) => setSelectedPost(post)}
SelectPost(i) ==
    /\ mounted
    /\ i \in DOMAIN viewPosts
    /\ selectedPost # Some(viewPosts[i])
    /\ selectedPost' = Some(viewPosts[i])
    /\ UNCHANGED <<page, account, totalPosts, viewPosts, localStorage,
                   pending, msTick, lastStep, error, intervalTotal, seeded, mounted,
                   ledgerVars, blockTime, lastCall>>

\* A handler is called: the optimistic update is shown (and cached, in
\* part_003), the provider clears its error and the transaction goes out.
\* Each call reads a later Date.now().
Start(op) ==
    /\ mounted
    /\ account # None
    /\ blockchainSends(op.kind, TRUE, account, op.content) = 1
    /\ Cardinality(pending) < MaxPending
    /\ msTick < MaxTicks
    /\ msTick' = msTick + 1
    /\ viewPosts' = Optimistic(viewPosts, op)
    /\ selectedPost' = IF op.kind = "addComment"
                       THEN handleAddComment_selected(selectedPost, op)
                       ELSE selectedPost
    /\ localStorage' = IF page = "part_003"
                       THEN Some(Optimistic(viewPosts, op))
                       ELSE localStorage
    /\ error' = None
    /\ pending' = pending \cup {op}
    /\ lastStep' = Step(op.kind, "optimistic", op.optimistic.id)
    /\ UNCHANGED <<page, account, totalPosts, intervalTotal, seeded, mounted,
                   ledgerVars, blockTime, lastCall>>

\* The Post button of the modal: handleCreatePost(newPostContent), enabled
\* while newPostContent.trim() is not empty and nothing is loading.
StartCreatePost(content) ==
    /\ Trim(content) # ""
    /\ ~isLoading
    /\ account # None
    /\ LET now == DateNow(blockTime, msTick + 1)
           o == optimisticPost(The(account).address, now, content)
       IN  Start(Op(page, "createPost", now, content, o, viewPosts,
                    selectedPost, totalPosts))

\* The comment box of the selected post: handleAddComment(selectedPost.id,
\* newCommentContent).
StartAddComment(content) ==
    /\ Trim(content) # ""
    /\ ~isLoading
    /\ account # None
    /\ selectedPost # None
    /\ LET now == DateNow(blockTime, msTick + 1)
           p == The(selectedPost).id
           o == optimisticComment(The(account).address, now, p, content)
       IN  Start(Op(page, "addComment", p, content, o, viewPosts,
                    selectedPost, totalPosts))

\* The like button of a post shown: onLike(post.id).  Without a wallet the
\* handler returns at once: if (!account) return;
StartToggleLike(i) ==
    /\ mounted
    /\ i \in DOMAIN viewPosts
    /\ IF account = None
       THEN /\ lastStep' = Step("toggleLike", "return", -1)
            /\ lastStep' # lastStep
            /\ UNCHANGED <<page, account, totalPosts, viewPosts, selectedPost,
                           localStorage, pending, msTick, error,
                           intervalTotal, seeded, mounted, ledgerVars, blockTime,
                           lastCall>>
       ELSE LET now == DateNow(blockTime, msTick + 1)
            IN  Start(Op(page, "toggleLike", viewPosts[i].id, "",
                         [id |-> now], viewPosts, selectedPost, totalPosts))

\* The transaction of op as the ledger executes it.
Transaction(op) ==
    CASE op.kind = "createPost" ->
             createPost(Ledger, The(account).address, blockTime, op.content)
      [] op.kind = "addComment" ->
             addComment(Ledger, The(account).address, blockTime, op.postId,
                        op.content)
      [] op.kind = "toggleLike" ->
             toggleLike(Ledger, The(account).address, op.postId)

\* The id the ledger gave to what the transaction created.
AssignedId(op, r) ==
    CASE op.kind = "createPost" -> r.events[1].postId
      [] op.kind = "addComment" -> r.events[1].commentId
      [] op.kind = "toggleLike" -> -1

\* await sendTransaction(...) resolves: the transaction is in the ledger.
\* Home.tsx then caches the posts of its optimistic update; part_003 sets a
\* timer for loadPosts; part_004 calls loadPosts (getAllPosts alone after
\* addComment).
SubmitOk(op) ==
    LET r == Transaction(op)
    IN  /\ op \in pending
        /\ op.stage = "submitting"
        /\ r.status = "ok"
        /\ op.kind = "createPost" => nextPostId < MaxPosts
        /\ op.kind = "addComment" => nextCommentId < MaxComments
        /\ Commit(op.kind, r)
        /\ CASE page = "Home.tsx" ->
                   /\ localStorage' = Some(Optimistic(op.posts, op))
                   /\ pending' = pending \ {op}
                   /\ UNCHANGED viewPosts
             [] page = "part_003" ->
                   /\ pending' = (pending \ {op}) \cup
                                     {[op EXCEPT !.stage = "waiting",
                                                 !.ledgerId = AssignedId(op, r)]}
                   /\ UNCHANGED <<viewPosts, localStorage>>
             [] OTHER ->
                   /\ viewPosts' =
                          IF op.kind = "addComment" THEN viewPosts
                          ELSE setState(mounted, viewPosts,
                                        loadPosts_cached(page, viewPosts,
                                                         localStorage))
                   /\ pending' = (pending \ {op}) \cup
                                     {[op EXCEPT !.stage = "reloading",
                                                 !.ledgerId = AssignedId(op, r)]}
                   /\ UNCHANGED localStorage
        /\ lastStep' = Step(op.kind, "confirmed", op.optimistic.id)
        /\ UNCHANGED <<page, account, totalPosts, selectedPost, msTick,
                       error, intervalTotal, seeded, mounted>>

\* SubmitFail that sends the transaction again.
SubmitFailResends(op, message) ==
    /\ op \in pending
    /\ op.stage = "submitting"
    /\ viewPosts' = setState(mounted, viewPosts, Catch(page, viewPosts, op))
    /\ localStorage' = localStorage
    /\ error' = blockchainError(message)
    /\ pending' = pending
    /\ lastStep' = Step(op.kind, "catch", op.optimistic.id)
    /\ UNCHANGED <<page, account, totalPosts, selectedPost, msTick,
                   intervalTotal, seeded, mounted, ledgerVars, blockTime, lastCall>>

\* await sendTransaction(...) throws (the wallet refuses, the network fails,
\* the contract reverts): the provider sets its error and throws on, and the
\* catch of the handler takes the optimistic update back (and caches the
\* result, in part_003).
SubmitFail(op, message) ==
    /\ op \in pending
    /\ op.stage = "submitting"
    /\ viewPosts' = setState(mounted, viewPosts, Catch(page, viewPosts, op))
    /\ localStorage' = IF page = "part_003"
                       THEN Some(Catch(page, viewPosts, op))
                       ELSE localStorage
    /\ error' = blockchainError(message)
    /\ pending' = pending \ {op}
    /\ lastStep' = Step(op.kind, "catch", op.optimistic.id)
    /\ UNCHANGED <<page, account, totalPosts, selectedPost, msTick,
                   intervalTotal, seeded, mounted, ledgerVars, blockTime, lastCall>>

\* part_003: the timer set after a confirmed transaction fires and
\* loadPosts is called.
TimeoutFires(op) ==
    /\ op \in pending
    /\ op.stage = "waiting"
    /\ pending' = (pending \ {op}) \cup {[op EXCEPT !.stage = "reloading"]}
    /\ UNCHANGED <<page, account, totalPosts, viewPosts, selectedPost,
                   localStorage, msTick, lastStep, error, intervalTotal,
                   seeded, mounted, ledgerVars, blockTime, lastCall>>

\* await getAllPosts() resolves: the posts read replace the ones shown.
\* loadPosts caches them; handleAddComment re-selects the post (part_004
\* calls getAllPosts itself and caches nothing).
ReloadDone(op, failed) ==
    LET fetchedPosts == getAllPosts(Ledger, TRUE, op.total, failed)
        updatedPost == Find(fetchedPosts, op.postId)
    IN  /\ op \in pending
        /\ op.stage = "reloading"
        /\ viewPosts' = setState(mounted, viewPosts,
                                 loadPosts_done(viewPosts, fetchedPosts))
        /\ selectedPost' =
               IF /\ op.kind = "addComment"
                  /\ updatedPost # None
                  /\ op.selectedPost # None
                  /\ The(op.selectedPost).id = op.postId
               THEN setState(mounted, selectedPost, updatedPost)
               ELSE selectedPost
        /\ localStorage' = IF InLoadPosts(page, op)
                           THEN Some(fetchedPosts) ELSE localStorage
        /\ pending' = pending \ {op}
        /\ lastStep' = Step(op.kind, "reloaded", op.optimistic.id)
        /\ UNCHANGED <<page, account, totalPosts, msTick, error,
                       intervalTotal, seeded, mounted, ledgerVars, blockTime, lastCall>>

\* part_003 and part_004: the interval fires, if (account) loadPosts().  The
\* callback is the one of the render in which the wallet connected.
Tick ==
    /\ mounted
    /\ page \in TimerPages
    /\ account # None
    /\ LoadPostsOp(intervalTotal) \notin pending
    /\ viewPosts' = loadPosts_cached(page, viewPosts, localStorage)
    /\ pending' = pending \cup {LoadPostsOp(intervalTotal)}
    /\ lastStep' = Step("loadPosts", "tick", -1)
    /\ UNCHANGED <<page, account, totalPosts, selectedPost, localStorage,
                   msTick, error, intervalTotal, seeded, mounted, ledgerVars,
                   blockTime, lastCall>>

\* The browser loads the page again while no transaction is awaited: the
\* state of the components starts anew, the cache stays, and the mount
\* effect shows the cached posts.  The wallet connects later.
Remount ==
    /\ mounted
    /\ \A op \in pending : op.stage # "submitting"
    /\ lastStep.handler # "mount"
    /\ account' = None
    /\ totalPosts' = None
    /\ viewPosts' = mount_seed(localStorage)
    /\ seeded' = mount_seed(localStorage)
    /\ selectedPost' = None
    /\ pending' = {}
    /\ error' = None
    /\ intervalTotal' = None
    /\ lastStep' = Step("mount", "seeded", -1)
    /\ UNCHANGED <<page, localStorage, msTick, mounted, ledgerVars,
                   blockTime, lastCall>>

\* A Home page is mounted over a freshly deployed ledger, no wallet
\* connected yet and nothing cached.
InitClient ==
    /\ nextPostId = EmptyLedger.nextPostId
    /\ nextCommentId = EmptyLedger.nextCommentId
    /\ posts = EmptyLedger.posts
    /\ comments = EmptyLedger.comments
    /\ hasLiked = EmptyLedger.hasLiked
    /\ blockTime = 1
    /\ lastCall = Receipt("constructor", Ok(EmptyLedger, Void, <<>>))
    /\ page \in Pages
    /\ ClientOff

\* The page and the viewer, while another actor posts and likes on the
\* ledger, all within one block.
NextClient ==
    \/ Connect
    \/ Refetch
    \/ \E i \in 1..MaxShown : SelectPost(i)
    \/ StartCreatePost("Hello")
    \/ StartAddComment("Hi")
    \/ \E i \in 1..MaxShown : StartToggleLike(i)
    \/ \E op \in pending : SubmitOk(op)
    \/ \E op \in pending, message \in FailureMessages : SubmitFail(op, message)
    \/ \E op \in pending, failed \in SUBSET (1..MaxPosts) : ReloadDone(op, failed)
    \/ \E a \in Actors \ {Viewer} : CreatePost(a, "Hello")
    \/ \E a \in Actors \ {Viewer}, p \in PostKeys :
          p < nextPostId /\ ToggleLike(a, p)

SpecClient == InitClient /\ [][NextClient]_vars

\* Any of the three Home pages through page loads, with the interval of
\* part_003 and part_004 and the timers of part_003.
InitSession ==
    /\ nextPostId = EmptyLedger.nextPostId
    /\ nextCommentId = EmptyLedger.nextCommentId
    /\ posts = EmptyLedger.posts
    /\ comments = EmptyLedger.comments
    /\ hasLiked = EmptyLedger.hasLiked
    /\ blockTime = 1
    /\ lastCall = Receipt("constructor", Ok(EmptyLedger, Void, <<>>))
    /\ page \in SessionPages
    /\ ClientOff

NextSession ==
    \/ Connect
    \/ Refetch
    \/ StartCreatePost("Hello")
    \/ \E i \in 1..MaxShown : StartToggleLike(i)
    \/ \E op \in pending : SubmitOk(op)
    \/ \E op \in pending : SubmitFail(op, "User rejected")
    \/ \E op \in pending, failed \in SUBSET (1..MaxPosts) : ReloadDone(op, failed)
    \/ \E a \in Actors \ {Viewer} : CreatePost(a, "Hello")
    \/ Tick
    \/ \E op \in pending : TimeoutFires(op)
    \/ Remount

SpecSession == InitSession /\ [][NextSession]_vars

\* A Home page whose viewer does nothing after connecting, while another
\* actor posts, comments and likes: only the effects and the interval run,
\* and every read of the ledger succeeds.
NextPeriodic ==
    \/ Connect
    \/ Refetch
    \/ Tick
    \/ \E op \in pending : ReloadDone(op, {})
    \/ \E a \in Actors \ {Viewer} : CreatePost(a, "Hello")
    \/ \E a \in Actors \ {Viewer}, p \in PostKeys :
          p < nextPostId /\ AddComment(a, p, "Hi")
    \/ \E a \in Actors \ {Viewer}, p \in PostKeys :
          p < nextPostId /\ ToggleLike(a, p)

\* The wallet connects in the end, the hook gets its data, the interval
\* keeps firing and every getAllPosts under way resolves.
FairPeriodic ==
    /\ WF_vars(Connect)
    /\ WF_vars(Refetch)
    /\ WF_vars(Tick)
    /\ WF_vars(\E op \in pending : ReloadDone(op, {}))

SpecPeriodic == InitSession /\ [][NextPeriodic]_vars /\ FairPeriodic

\* The contract as deployed, over the keys SpecFeed reads.
EmptyFeed ==
    [EmptyLedger EXCEPT
        !.posts = [k \in 0..MaxFeed |-> ZeroPost],
        !.hasLiked = [k \in 0..MaxFeed |-> [a \in Actors |-> FALSE]]]

\* A Home page with an interval over a ledger on which up to MaxFeed posts
\* are created, in the same block or in later ones; the viewer only reads.
InitFeed ==
    /\ nextPostId = EmptyFeed.nextPostId
    /\ nextCommentId = EmptyFeed.nextCommentId
    /\ posts = EmptyFeed.posts
    /\ comments = EmptyFeed.comments
    /\ hasLiked = EmptyFeed.hasLiked
    /\ blockTime = 1
    /\ lastCall = Receipt("constructor", Ok(EmptyFeed, Void, <<>>))
    /\ page \in TimerPages
    /\ ClientOff

NextFeed ==
    \/ \E a \in Actors : CreatePostUpTo(MaxFeed, a, "Hello")
    \/ Mine
    \/ Connect
    \/ Refetch
    \/ Tick
    \/ \E op \in pending, failed \in SUBSET (1..MaxFeed) : ReloadDone(op, failed)

SpecFeed == InitFeed /\ [][NextFeed]_vars

\* Home is unmounted (the user leaves the page inside the application)
\* while calls are under way: the cleanup of the interval effect runs
\* clearInterval; nothing cancels the handlers that are awaiting, nor the
\* timers they set.
Unmount ==
    /\ mounted
    /\ pending # {}
    /\ mounted' = FALSE
    /\ UNCHANGED <<page, account, totalPosts, viewPosts, selectedPost,
                   localStorage, pending, msTick, lastStep, error,
                   intervalTotal, seeded, ledgerVars, blockTime, lastCall>>

\* Any of the three Home pages up to and beyond its unmounting.
NextTeardown ==
    \/ Connect
    \/ Refetch
    \/ StartCreatePost("Hello")
    \/ \E i \in 1..MaxShown : StartToggleLike(i)
    \/ \E op \in pending : SubmitOk(op)
    \/ \E op \in pending : SubmitFail(op, "User rejected")
    \/ \E op \in pending : ReloadDone(op, {})
    \/ \E a \in Actors \ {Viewer} : CreatePost(a, "Hello")
    \/ Tick
    \/ \E op \in pending : TimeoutFires(op)
    \/ Unmount

SpecTeardown == InitSession /\ [][NextTeardown]_vars

\* One call of createPost / toggleLike / addComment of the provider, as a
\* whole: the throws ahead of the try, then setError(null) and
\* sendTransaction, which throws with `rejected` if the wallet or the network
\* refuses and with the revert reason if the contract reverts.  Gives the
\* ledger after the call, its receipt, the error thrown to the caller, the
\* error the provider shows and the sendTransaction calls made; err is the
\* error shown before the call.
blockchainCall(L, err, accountAddress, now, kind, postId, content, rejected) ==
    LET thrown == blockchainThrows(kind, TRUE, accountAddress, content)
        sender == The(accountAddress).address
        r == CASE kind = "createPost" -> createPost(L, sender, now, content)
               [] kind = "addComment" ->
                      addComment(L, sender, now, postId, content)
               [] kind = "toggleLike" -> toggleLike(L, sender, postId)
        sends == blockchainSends(kind, TRUE, accountAddress, content)
    IN  IF thrown # None
        THEN [state |-> L, receipt |-> None, thrown |-> thrown,
              error |-> err, sends |-> sends]
        ELSE IF rejected # None
        THEN [state |-> L, receipt |-> None, thrown |-> rejected,
              error |-> blockchainError(The(rejected)), sends |-> sends]
        ELSE IF r.status # "ok"
        THEN [state |-> L, receipt |-> None, thrown |-> Some(r.error),
              error |-> blockchainError(r.error), sends |-> sends]
        ELSE [state |-> r.state, receipt |-> Some(r), thrown |-> None,
              error |-> None, sends |-> sends]

\* useActiveAccount() changes: a wallet connects, or the wallet disconnects.
SwitchAccount(a) ==
    /\ account # a
    /\ account' = a
    /\ UNCHANGED <<page, totalPosts, viewPosts, selectedPost, localStorage,
                   pending, msTick, lastStep, error, intervalTotal, seeded, mounted,
                   ledgerVars, blockTime, lastCall>>

\* A component calls createPost / toggleLike / addComment of the provider
\* and the call runs to its end.  The step kept is the error thrown, or
\* "resolved".
BlockchainCall(kind, postId, content, rejected) ==
    LET c == blockchainCall(Ledger, error, account, blockTime, kind, postId,
                            content, rejected)
    IN  /\ c.receipt # None /\ kind = "createPost" => nextPostId < MaxPosts
        /\ c.receipt # None /\ kind = "addComment"
               => nextCommentId < MaxComments
        /\ IF c.receipt # None
           THEN Commit(kind, The(c.receipt))
           ELSE UNCHANGED <<ledgerVars, blockTime, lastCall>>
        /\ error' = c.error
        /\ lastStep' = Step(kind, IF c.thrown # None THEN The(c.thrown)
                                  ELSE "resolved", postId)
        /\ UNCHANGED <<page, account, totalPosts, viewPosts, selectedPost,
                       localStorage, pending, msTick, intervalTotal, seeded, mounted>>

\* The provider alone over a freshly deployed ledger: any component may call
\* it with any content, connected or not.
InitEngine ==
    /\ nextPostId = EmptyLedger.nextPostId
    /\ nextCommentId = EmptyLedger.nextCommentId
    /\ posts = EmptyLedger.posts
    /\ comments = EmptyLedger.comments
    /\ hasLiked = EmptyLedger.hasLiked
    /\ blockTime = 1
    /\ lastCall = Receipt("constructor", Ok(EmptyLedger, Void, <<>>))
    /\ page = "none"
    /\ ClientOff

NextEngine ==
    \/ SwitchAccount(Some([address |-> Viewer]))
    \/ SwitchAccount(None)
    \/ \E kind \in HandlerKinds, p \in 0..MaxPosts - 1,
          content \in ClientContents,
          rejected \in {None} \cup {Some(m) : m \in FailureMessages} :
          BlockchainCall(kind, IF kind = "createPost" THEN -1 ELSE p,
                         content, rejected)

SpecEngine == InitEngine /\ [][NextEngine]_vars


\* ------------------------------------------------------------ properties
\* The actors whose LikeRecord for post p is true in ledger L.
Likers(L, p) == {a \in Actors : L.hasLiked[p][a]}

\* The revert reasons by the error they stand for.
ValidationError == {"Content cannot be empty", "Comment cannot be empty"}
NotFoundError == {"Post does not exist"}

\* C1: in every reachable ledger state the likes of each post equal the
\* number of actors whose hasLiked entry for that post is true.
C1_LikeCountMatchesRecords ==
    \A p \in PostKeys : posts[p].likes = Cardinality(Likers(Ledger, p))

\* C1 witness: an unlike has just been committed on a post that another
\* actor still likes.
C1_Witness ==
    /\ lastCall.method = "toggleLike"
    /\ lastCall.status = "ok"
    /\ lastCall.events[1].name = "PostUnliked"
    /\ \E p \in PostKeys : posts[p].likes = 1 /\ p = lastCall.events[1].postId
    /\ \E p \in PostKeys : posts[p].likes = 2

\* What getPost yields for a post created by createPost(a, x) in a block of
\* timestamp t under id: the five fields of the generated getter.
CreatedPostView(id, a, x, t) ==
    [id |-> id, author |-> a, content |-> x, likes |-> 0, timestamp |-> t]

AfterOneOther(L, p, now) ==
    {L}
    \cup {createPost(L, a, now, x).state : a \in Actors, x \in Contents}
    \cup {addComment(L, a[1], now, a[2], a[3]).state :
              a \in Actors \X PostKeys \X Contents}
    \cup {toggleLike(L, a[1], a[2]).state :
              a \in Actors \X (PostKeys \ {p})}

\* C3: from any reachable state, for an existing post p and an actor u,
\* toggleLike(p, u), at most one transaction that is no toggleLike on p, and
\* toggleLike(p, u) again leave hasLiked[p][u] and the likes of p as they
\* were before the first call; with nothing in between the whole ledger is
\* as before.
C3_DoubleToggleRestores ==
    \A p \in PostKeys, u \in Actors :
        p < nextPostId =>
            LET first == toggleLike(Ledger, u, p)
            IN  /\ first.status = "ok"
                /\ first.state.hasLiked[p][u] = ~hasLiked[p][u]
                /\ toggleLike(first.state, u, p).state = Ledger
                /\ \A M \in AfterOneOther(first.state, p, blockTime) :
                       LET second == toggleLike(M, u, p)
                       IN  /\ second.status = "ok"
                           /\ second.state.hasLiked[p][u] = hasLiked[p][u]
                           /\ second.state.posts[p].likes = posts[p].likes

\* C3 witness: an actor has liked and then unliked a commented post that
\* nobody else likes.
C3_Witness ==
    /\ lastCall.method = "toggleLike"
    /\ lastCall.status = "ok"
    /\ lastCall.events[1].name = "PostUnliked"
    /\ posts[lastCall.events[1].postId].likes = 0
    /\ Len(posts[lastCall.events[1].postId].commentIds) > 0
    /\ ~hasLiked[lastCall.events[1].postId][lastCall.events[1].user]

\* The comment that addComment(p, x) by a stores under id in a block of
\* timestamp t.
AddedComment(id, p, a, x, t) ==
    [id |-> id, postId |-> p, author |-> a, content |-> x, timestamp |-> t]

\* C4: getComments(p) of an existing post p is exactly the comments added to
\* p, each once, in the order their addComment calls succeeded (ids grow in
\* that order): a successful addComment on p puts its comment at the end of
\* getComments(p) and leaves getComments of every other post as it was,
\* whatever the contents and timestamps.
C4_CommentsInAppendOrder ==
    \A p \in PostKeys :
        p < nextPostId =>
            LET got == getComments(Ledger, p)
            IN  /\ got.status = "ok"
                /\ \A i \in 1..Len(got.ret) :
                       /\ got.ret[i].postId = p
                       /\ got.ret[i].id < nextCommentId
                       /\ got.ret[i] = comments[got.ret[i].id]
                /\ \A i, j \in 1..Len(got.ret) :
                       i < j => got.ret[i].id < got.ret[j].id
                /\ \A c \in CommentKeys :
                       (c < nextCommentId /\ comments[c].postId = p) =>
                           \E i \in 1..Len(got.ret) : got.ret[i] = comments[c]
                /\ \A a \in Actors, x \in Contents \ {""} :
                       LET r == addComment(Ledger, a, blockTime, p, x)
                       IN  /\ r.status = "ok"
                           /\ getComments(r.state, p).ret =
                                  Append(got.ret,
                                         AddedComment(nextCommentId, p, a, x,
                                                      blockTime))
                           /\ \A q \in PostKeys :
                                  (q < nextPostId /\ q # p) =>
                                      getComments(r.state, q).ret =
                                          getComments(Ledger, q).ret

\* C4 witness: post 0 holds comments 0 and 2, added in one block with "Hi"
\* before "Hello", and comment 1 went to post 1 in between.
C4_Witness ==
    /\ lastCall.method = "addComment"
    /\ lastCall.status = "ok"
    /\ posts[0].commentIds = <<0, 2>>
    /\ posts[1].commentIds = <<1>>
    /\ comments[0].content = "Hi"
    /\ comments[2].content = "Hello"
    /\ comments[0].timestamp = comments[2].timestamp
    /\ getComments(Ledger, 0).ret = <<comments[0], comments[2]>>

\* The end-to-end scenario from the empty ledger, its transactions mined at
\* timestamps t[1] <= t[2] <= t[3] <= t[4]: the receipts of createPost by A
\* with "Hello", addComment(0, "Hi") by B, and two toggleLike(0) by A.
Scenario(t) ==
    LET s1 == createPost(EmptyLedger, "A", t[1], "Hello")
        s2 == addComment(s1.state, "B", t[2], 0, "Hi")
        s3 == toggleLike(s2.state, "A", 0)
        s4 == toggleLike(s3.state, "A", 0)
    IN  <<s1, s2, s3, s4>>

ScenarioTimes ==
    {t \in [1..4 -> 1..MaxTime] : \A i \in 1..3 : t[i] <= t[i + 1]}

Calls(L, now) ==
    {[method |-> "createPost", r |-> createPost(L, a[1], now, a[2])] :
         a \in Actors \X Contents}
    \cup {[method |-> "addComment",
           r |-> addComment(L, a[1], now, a[2], a[3])] :
              a \in Actors \X PostKeys \X Contents}
    \cup {[method |-> "toggleLike", r |-> toggleLike(L, a[1], a[2])] :
              a \in Actors \X PostKeys}

\* C6: the post ids assigned are 0 .. nextPostId - 1 and the comment ids
\* 0 .. nextCommentId - 1, each stored once under its own key; from any
\* reachable state a successful createPost assigns the post id nextPostId,
\* above every post id assigned before, and nothing else moves nextPostId;
\* a successful addComment assigns the comment id nextCommentId, above every
\* comment id assigned before, and nothing else moves nextCommentId; a failed
\* call moves neither counter, and no call changes an id already assigned.
C6_IdsAssignedOnceInOrder ==
    /\ \A k \in PostKeys :
           IF k < nextPostId THEN posts[k].id = k ELSE posts[k] = ZeroPost
    /\ \A k \in CommentKeys :
           IF k < nextCommentId THEN comments[k].id = k
           ELSE comments[k] = ZeroComment
    /\ \A c \in Calls(Ledger, blockTime) :
           LET after == c.r.state
               newPost == c.method = "createPost" /\ c.r.status = "ok"
               newComment == c.method = "addComment" /\ c.r.status = "ok"
           IN  /\ after.nextPostId =
                      IF newPost THEN nextPostId + 1 ELSE nextPostId
               /\ after.nextCommentId =
                      IF newComment THEN nextCommentId + 1 ELSE nextCommentId
               /\ newPost =>
                      /\ c.r.events[1].postId = nextPostId
                      /\ after.posts[nextPostId].id = nextPostId
                      /\ \A k \in PostKeys :
                             k < nextPostId => posts[k].id < nextPostId
               /\ newComment =>
                      /\ c.r.events[1].commentId = nextCommentId
                      /\ after.comments[nextCommentId].id = nextCommentId
                      /\ \A k \in CommentKeys :
                             k < nextCommentId => comments[k].id < nextCommentId
               /\ \A k \in PostKeys :
                      k < nextPostId => after.posts[k].id = posts[k].id
               /\ \A k \in CommentKeys :
                      k < nextCommentId => after.comments[k].id = comments[k].id

\* C6 witness: the second comment has just been given id 1, two posts
\* existing.
C6_Witness ==
    /\ lastCall.method = "addComment"
    /\ lastCall.status = "ok"
    /\ lastCall.events[1].commentId = 1
    /\ nextCommentId = 2
    /\ nextPostId = 2
    /\ comments[0].id = 0
    /\ comments[1].id = 1

\* C7: from any reachable state createPost with empty content reverts with
\* "Content cannot be empty" (a ValidationError), the storage stays as it
\* was (no post stored, no id allocated) and no event is logged.
C7_EmptyPostRejected ==
    /\ \A a \in Actors :
           LET r == createPost(Ledger, a, blockTime, "")
           IN  /\ r.status = "reverted"
               /\ r.error \in ValidationError
               /\ r.state = Ledger
               /\ r.events = <<>>
    /\ (lastCall.method = "createPost" /\ lastCall.status = "reverted") =>
           /\ lastCall.error = "Content cannot be empty"
           /\ lastCall.events = <<>>

\* C7 witness: a createPost has just been rejected on a ledger that holds a
\* post.
C7_Witness ==
    /\ lastCall.method = "createPost"
    /\ lastCall.status = "reverted"
    /\ lastCall.error \in ValidationError
    /\ nextPostId = 1
    /\ posts[nextPostId] = ZeroPost

\* C8: from any reachable state addComment reverts with "Post does not
\* exist" (NotFoundError) when _postId is no existing post, and with
\* "Comment cannot be empty" (ValidationError) when the post exists and the
\* content is empty; it succeeds otherwise; a reverted addComment leaves the
\* storage as it was (no comment stored, no id allocated, no commentIds
\* changed) and logs no event.
C8_BadCommentRejected ==
    /\ \A a \in Actors, p \in PostKeys, x \in Contents :
           LET r == addComment(Ledger, a, blockTime, p, x)
           IN  /\ ~(p < nextPostId) =>
                      r.status = "reverted" /\ r.error \in NotFoundError
               /\ (p < nextPostId /\ x = "") =>
                      r.status = "reverted" /\ r.error \in ValidationError
               /\ (p < nextPostId /\ x # "") => r.status = "ok"
               /\ r.status = "reverted" =>
                      /\ r.state = Ledger
                      /\ r.events = <<>>
    /\ (lastCall.method = "addComment" /\ lastCall.status = "reverted") =>
           /\ lastCall.error \in NotFoundError \cup ValidationError
           /\ lastCall.events = <<>>

\* C8 witness: an addComment with empty content has just been rejected on a
\* post that already holds a comment.
C8_Witness ==
    /\ lastCall.method = "addComment"
    /\ lastCall.status = "reverted"
    /\ lastCall.error = "Comment cannot be empty"
    /\ nextCommentId = 1
    /\ posts[0].commentIds = <<0>>

\* C9: from any reachable state toggleLike and getComments on a _postId that
\* is no existing post revert with "Post does not exist" (NotFoundError); a
\* reverted toggleLike leaves every hasLiked entry and every likes as they
\* were and logs no event; getComments leaves the storage as it was whether
\* it succeeds or reverts.
C9_UnknownPostRejected ==
    /\ \A a \in Actors, p \in PostKeys :
           LET r == toggleLike(Ledger, a, p)
           IN  /\ ~(p < nextPostId) =>
                      r.status = "reverted" /\ r.error \in NotFoundError
               /\ r.status = "reverted" =>
                      /\ r.state.hasLiked = hasLiked
                      /\ \A q \in PostKeys : r.state.posts[q].likes = posts[q].likes
                      /\ r.state = Ledger
                      /\ r.events = <<>>
    /\ \A p \in PostKeys :
           LET r == getComments(Ledger, p)
           IN  /\ ~(p < nextPostId) =>
                      r.status = "reverted" /\ r.error \in NotFoundError
               /\ p < nextPostId => r.status = "ok"
               /\ r.state = Ledger
               /\ r.events = <<>>
    /\ \A p \in PostKeys :
           ~(p < nextPostId) => hasLiked[p] = [a \in Actors |-> FALSE]

\* C9 witness: a toggleLike on an unknown post has just been rejected on a
\* ledger that holds a liked post.
C9_Witness ==
    /\ lastCall.method = "toggleLike"
    /\ lastCall.status = "reverted"
    /\ lastCall.error \in NotFoundError
    /\ nextPostId = 1
    /\ posts[0].likes = 1
    /\ getComments(Ledger, 1).status = "reverted"

\* C10 as stated: getPost of a postId never assigned yields null, not a
\* Post.
C10_AsStated ==
    \A p \in PostKeys :
        ~(p < nextPostId) => getPost(Ledger, TRUE, TRUE, p) = Null

\* The positions at which id i stands in the sequence ids.
Occurrences(ids, i) == {n \in 1..Len(ids) : ids[n] = i}

\* Sequence s is the first Len(s) entries of sequence t.
IsPrefix(s, t) == Len(s) <= Len(t) /\ \A n \in 1..Len(s) : t[n] = s[n]

\* C11: from any reachable state, whatever createPost, addComment or
\* toggleLike comes next, by any sender with any arguments, succeeding or
\* not, every post created so far is still stored under its id with the same
\* id, author, content and timestamp, and the post counter has not gone
\* down; likes and commentIds are the only fields of a stored post a call
\* can change.
C11_PostFieldsImmutable ==
    \A c \in Calls(Ledger, blockTime) :
        LET after == c.r.state
        IN  /\ after.nextPostId >= nextPostId
            /\ \A k \in PostKeys :
                   k < nextPostId =>
                       /\ after.posts[k].id = posts[k].id
                       /\ after.posts[k].author = posts[k].author
                       /\ after.posts[k].content = posts[k].content
                       /\ after.posts[k].timestamp = posts[k].timestamp
                       /\ after.posts[k].id = k

\* C11 witness: post 0, created in the first block, has since been liked
\* and commented on in a later block, a second post exists, and post 0 still
\* carries its first author, content and timestamp.
C11_Witness ==
    /\ nextPostId = 2
    /\ blockTime = 2
    /\ posts[0].timestamp = 1
    /\ posts[0].content = "Hello"
    /\ posts[0].author \in Actors
    /\ posts[0].likes = 1
    /\ Len(posts[0].commentIds) = 1
    /\ comments[posts[0].commentIds[1]].timestamp = 2
    /\ lastCall.method = "addComment"
    /\ lastCall.status = "ok"

\* C12: every comment created so far names an existing post, and its id
\* stands exactly once in that post's commentIds and in no other post's;
\* whatever call comes next, every comment created so far is stored
\* unchanged, the comment counter has not gone down, and each post's
\* commentIds is either unchanged or the old sequence with one new id
\* appended at its end.
C12_CommentsImmutableAndListed ==
    /\ \A c \in CommentKeys :
           c < nextCommentId =>
               /\ comments[c].postId < nextPostId
               /\ Cardinality(Occurrences(posts[comments[c].postId].commentIds,
                                          c)) = 1
               /\ \A q \in PostKeys :
                      q # comments[c].postId =>
                          Occurrences(posts[q].commentIds, c) = {}
    /\ \A call \in Calls(Ledger, blockTime) :
           LET after == call.r.state
           IN  /\ after.nextCommentId >= nextCommentId
               /\ \A c \in CommentKeys :
                      c < nextCommentId => after.comments[c] = comments[c]
               /\ \A q \in PostKeys :
                      /\ IsPrefix(posts[q].commentIds, after.posts[q].commentIds)
                      /\ Len(after.posts[q].commentIds) <=
                             Len(posts[q].commentIds) + 1
                      /\ Len(after.posts[q].commentIds) >
                             Len(posts[q].commentIds) =>
                             after.posts[q].commentIds =
                                 Append(posts[q].commentIds, nextCommentId)

\* C12 witness: two comments on two different posts, the second just added.
C12_Witness ==
    /\ nextCommentId = 2
    /\ comments[0].postId = 1
    /\ comments[1].postId = 0
    /\ posts[1].commentIds = <<0>>
    /\ posts[0].commentIds = <<1>>
    /\ lastCall.method = "addComment"
    /\ lastCall.status = "ok"

\* C13: from any reachable state a successful toggleLike(p) by u leaves a
\* ledger that differs from the one before in hasLiked[p][u], which is
\* flipped, and in the likes of post p, which moves by one, and in nothing
\* else: every other hasLiked entry, every other post's likes, every other
\* field of every post, every comment and both counters are as they were.
C13_ToggleLikeFrame ==
    \A u \in Actors, p \in PostKeys :
        LET r == toggleLike(Ledger, u, p)
        IN  r.status = "ok" =>
                /\ r.state.hasLiked[p][u] = ~hasLiked[p][u]
                /\ r.state.posts[p].likes =
                       IF hasLiked[p][u] THEN posts[p].likes - 1
                       ELSE posts[p].likes + 1
                /\ r.state =
                       [Ledger EXCEPT
                           !.hasLiked[p][u] = r.state.hasLiked[p][u],
                           !.posts[p].likes = r.state.posts[p].likes]

\* C13 witness: B has just liked post 0, which A had liked, while post 1 has
\* a like record of its own and a comment exists.
C13_Witness ==
    /\ lastCall.method = "toggleLike"
    /\ lastCall.status = "ok"
    /\ lastCall.events[1].postId = 0
    /\ lastCall.events[1].user = "B"
    /\ hasLiked[0]["A"]
    /\ hasLiked[0]["B"]
    /\ posts[0].likes = 2
    /\ nextPostId = 2
    /\ hasLiked[1]["A"]
    /\ nextCommentId >= 1

\* C14: from any reachable state a successful toggleLike(p) by u logs
\* exactly one event, PostLiked when hasLiked[p][u] is true afterwards and
\* PostUnliked when it is false, carrying p and u and nothing else; a
\* toggleLike that reverts logs no event.
C14_ToggleLikeEvents ==
    \A u \in Actors, p \in PostKeys :
        LET r == toggleLike(Ledger, u, p)
        IN  /\ r.status = "ok" =>
                   r.events =
                       <<[name |-> IF r.state.hasLiked[p][u]
                                   THEN "PostLiked" ELSE "PostUnliked",
                          postId |-> p, user |-> u]>>
            /\ r.status = "reverted" => r.events = <<>>
            /\ r.status \in {"ok", "reverted"}

\* C14 witness: A has just withdrawn a like from post 1 and the receipt
\* carries the one PostUnliked event, while a toggleLike on post 2 would
\* revert.
C14_Witness ==
    /\ lastCall.method = "toggleLike"
    /\ lastCall.status = "ok"
    /\ Len(lastCall.events) = 1
    /\ lastCall.events[1].name = "PostUnliked"
    /\ lastCall.events[1].postId = 1
    /\ lastCall.events[1].user = "A"
    /\ ~hasLiked[1]["A"]
    /\ toggleLike(Ledger, "A", 2).status = "reverted"

\* The call of handleCreatePost(content) the viewer could make now.
CreatePostCall(content) ==
    LET now == DateNow(blockTime, msTick + 1)
    IN  Op(page, "createPost", now, content,
           optimisticPost(The(account).address, now, content), viewPosts,
           selectedPost, totalPosts)

\* The call of handleToggleLike(postId) the viewer could make now.
ToggleLikeCall(postId) ==
    Op(page, "toggleLike", postId, "",
       [id |-> DateNow(blockTime, msTick + 1)], viewPosts, selectedPost,
       totalPosts)

\* The posts the reconciliation of op reads when every read succeeds.
Reconciled(op) == getAllPosts(Ledger, TRUE, op.total, {})

\* C15: in every reachable state of either Home page with a wallet
\* connected, showing the optimistic post of handleCreatePost and then
\* running its catch leaves the posts shown exactly as they were before the
\* call, so the set of post ids is the one before the action; and for every
\* handleCreatePost in flight, whatever happened since its call, its catch
\* leaves no entry with its placeholder id and otherwise the ids of the
\* posts captured at the call (Home.tsx) or of the posts shown now
\* (part_004).
C15_CreateRevertRestoresIds ==
    /\ account # None =>
           LET op == CreatePostCall("Hello")
               shown == handleCreatePost_optimistic(viewPosts, op)
               reverted == handleCreatePost_catch(page, shown, op)
           IN  /\ PostIds(shown) = PostIds(viewPosts) \cup {op.optimistic.id}
               /\ op.optimistic.id \notin PostIds(viewPosts)
               /\ PostIds(reverted) = PostIds(viewPosts)
               /\ reverted = viewPosts
    /\ \A op \in pending :
           (op.kind = "createPost" /\ op.stage = "submitting") =>
               LET reverted == handleCreatePost_catch(page, viewPosts, op)
               IN  /\ op.optimistic.id \notin PostIds(reverted)
                   /\ page = "Home.tsx" =>
                          PostIds(reverted) = PostIds(op.posts)
                   /\ page = "part_004" =>
                          PostIds(reverted) =
                              PostIds(viewPosts) \ {op.optimistic.id}

\* C15 witness: the catch of a handleCreatePost has just run; its
\* placeholder is gone from the posts shown, an earlier post is still there
\* and no call is in flight.
C15_Witness ==
    /\ lastStep.handler = "createPost"
    /\ lastStep.step = "catch"
    /\ lastStep.id \notin PostIds(viewPosts)
    /\ Len(viewPosts) >= 1
    /\ pending = {}

\* C16 as stated: once a handleToggleLike of the viewer on post p has had
\* its transaction confirmed and its reconciliation reads the ledger, the
\* entry of p read carries the ledger's likes of p and the like button is
\* given the ledger's hasLiked[p][viewer], whatever another actor did to p
\* meanwhile.
C16_AsStated ==
    \A op \in pending :
        (op.kind = "toggleLike" /\ op.stage = "reloading") =>
            LET entry == Find(Reconciled(op), op.postId)
            IN  /\ entry # None
                /\ PostCard_likes(The(entry)) = posts[op.postId].likes
                /\ PostCard_isLiked(The(entry)) = hasLiked[op.postId][Viewer]

\* C17 as stated: when the transaction of a handleCreatePost or
\* handleAddComment has just been confirmed, a reconciliation of that call
\* is under way; and the posts a reconciliation after a confirmed createPost
\* reads hold no entry with the placeholder id and hold the viewer's post
\* under the id the ledger assigned, those after a confirmed addComment hold
\* the post with the comment under its ledger id and no comment with the
\* placeholder id.
C17_AsStated ==
    /\ (lastStep.step = "confirmed" /\
        lastStep.handler \in {"createPost", "addComment"}) =>
           \E op \in pending :
               op.stage = "reloading" /\ op.optimistic.id = lastStep.id
    /\ \A op \in pending :
           (op.kind = "createPost" /\ op.stage = "reloading") =>
               LET entry == Find(Reconciled(op), op.ledgerId)
               IN  /\ op.optimistic.id \notin PostIds(Reconciled(op))
                   /\ entry # None
                   /\ The(entry).author = Viewer
                   /\ The(entry).content = op.content
    /\ \A op \in pending :
           (op.kind = "addComment" /\ op.stage = "reloading") =>
               LET entry == Find(Reconciled(op), op.postId)
               IN  /\ entry # None
                   /\ \E k \in DOMAIN CommentsOf(The(entry)) :
                          CommentsOf(The(entry))[k].id = op.ledgerId
                   /\ \A k \in DOMAIN CommentsOf(The(entry)) :
                          CommentsOf(The(entry))[k].id # op.optimistic.id

\* C18 as stated: when a reconciliation is the only call in flight and
\* getAllPosts holds the ledger's current post count, the posts it reads are
\* the ledger's posts: the ids read are the ids assigned, each once, and
\* every entry is the ledger's post of that id.
C18_AsStated ==
    \A op \in pending :
        (op.stage = "reloading" /\ pending = {op} /\
         op.total = Some(nextPostId)) =>
            LET fetchedPosts == Reconciled(op)
            IN  /\ PostIds(fetchedPosts) = {k \in PostKeys : k < nextPostId}
                /\ Len(fetchedPosts) = nextPostId
                /\ \A i \in DOMAIN fetchedPosts :
                       fetchedPosts[i] =
                           getPost(Ledger, TRUE, TRUE, fetchedPosts[i].id)

\* C19 as stated: every post a reconciliation reads carries the comments
\* getComments returns for it on the ledger, in the same order.
C19_AsStated ==
    \A op \in pending :
        op.stage = "reloading" =>
            LET fetchedPosts == Reconciled(op)
            IN  \A i \in DOMAIN fetchedPosts :
                    fetchedPosts[i].id < nextPostId =>
                        CommentsOf(fetchedPosts[i]) =
                            getComments(Ledger, fetchedPosts[i].id).ret

\* C20 as stated: in every reachable state with a wallet connected, for every
\* post shown, the optimistic update of handleToggleLike followed by its
\* catch leaves the likes and the isLiked that the post's card shows as
\* they were before the call.
C20_AsStated ==
    account # None =>
        \A i \in DOMAIN viewPosts :
            LET op == ToggleLikeCall(viewPosts[i].id)
                shown == handleToggleLike_optimistic(viewPosts, op)
                reverted == handleToggleLike_catch(page, shown, op)
            IN  /\ Len(reverted) = Len(viewPosts)
                /\ PostCard_likes(reverted[i]) = PostCard_likes(viewPosts[i])
                /\ PostCard_isLiked(reverted[i]) =
                       PostCard_isLiked(viewPosts[i])

ClientValidationError ==
    {"Post content cannot be empty", "Comment content cannot be empty"}

\* The outcomes of sendTransaction tried: it resolves unless the contract
\* reverts, or the wallet or the network refuses with one of the messages.
Rejections == {None} \cup {Some(m) : m \in FailureMessages}

ShowsPost(p) ==
    \E i \in DOMAIN viewPosts :
        /\ viewPosts[i].id = p
        /\ viewPosts[i].author = posts[p].author
        /\ viewPosts[i].content = posts[p].content

\* C23 as stated, for the pages that set the interval up: once a wallet is
\* connected, every post another actor has committed is eventually shown,
\* the viewer doing nothing, the interval firing and the reads succeeding.
C23_AsStated ==
    \A p \in 0..MaxPosts - 1 :
        (page \in TimerPages /\ account # None /\ p < nextPostId)
            ~> ShowsPost(p)


\* The entries of a list of posts.
Entries(ps) == {ps[i] : i \in DOMAIN ps}

\* The step taken completes the getAllPosts of op.
Completes(op) ==
    /\ op \in pending
    /\ op.stage = "reloading"
    /\ pending' = pending \ {op}
    /\ lastStep'.step = "reloaded"
    /\ lastStep'.handler = op.kind

\* C24: when a reconciliation completes, the first after the mount effect
\* seeded the view from the cache included, the posts shown are exactly the
\* posts getAllPosts returned for it, so every seeded entry that is not
\* among them is gone from the view.
C24_SeedSuperseded ==
    [][\A op \in pending :
           Completes(op) =>
               \E failed \in SUBSET (1..MaxPosts) :
                   LET fetchedPosts ==
                           getAllPosts(Ledger, TRUE, op.total, failed)
                   IN  /\ viewPosts' = fetchedPosts
                       /\ \A s \in Entries(seeded) :
                              s \notin Entries(fetchedPosts)
                                  => s \notin Entries(viewPosts')]_vars

\* The first loadPosts after a page load has completed and an entry seeded
\* from the cache is no longer shown, while other posts are.
C24_Witness ==
    /\ lastStep = Step("loadPosts", "reloaded", -1)
    /\ viewPosts # <<>>
    /\ \E s \in Entries(seeded) : s \notin Entries(viewPosts)


\* C25 as stated: a reconciliation that completes either had the post count
\* and read every post, and shows what it read, or leaves the posts shown
\* and the posts of the cache as they were (a cache of no posts counting as
\* no cache).
C25_AsStated ==
    [][\A op \in pending :
           Completes(op) =>
               \/ /\ op.total # None
                  /\ viewPosts' = getAllPosts(Ledger, TRUE, op.total, {})
               \/ /\ viewPosts' = viewPosts
                  /\ mount_seed(localStorage') = mount_seed(localStorage)]_vars


\* A call of a handler is pending from its optimistic update until its
\* await of the provider resolves or throws.
IsPending(op) == op.stage = "submitting"

\* The step taken confirms op: the transaction is in the ledger and the
\* handler goes on behind the await.
Confirms(op) ==
    /\ lastStep' = Step(op.kind, "confirmed", op.optimistic.id)
    /\ lastCall'.method = op.kind
    /\ lastCall'.status = "ok"
    /\ \A o \in pending' : o.optimistic.id = op.optimistic.id => ~IsPending(o)

\* The step taken reverts op: the catch of the handler ran, the ledger is
\* as it was and the call is over.
Reverts(op) ==
    /\ lastStep' = Step(op.kind, "catch", op.optimistic.id)
    /\ UNCHANGED <<ledgerVars, lastCall>>
    /\ \A o \in pending' : o.optimistic.id # op.optimistic.id

\* C26: a pending call of a handler stays pending until one step either
\* confirms it or reverts it, never both; every confirmation and every
\* revert is the end of a pending call; and a call becomes pending only
\* at its optimistic update, under a placeholder later than every earlier
\* one, so a call that was confirmed or reverted is never pending again.
C26_PendingLeavesOnce ==
    [][/\ \A op \in pending :
              IsPending(op) =>
                  \/ op \in pending'
                  \/ Confirms(op) /\ ~Reverts(op)
                  \/ Reverts(op) /\ ~Confirms(op)
       /\ (lastStep' # lastStep /\ lastStep'.step \in {"confirmed", "catch"})
              => \E op \in pending :
                     /\ IsPending(op)
                     /\ op.optimistic.id = lastStep'.id
                     /\ op \notin pending'
       /\ \A op \in pending' :
              IsPending(op) =>
                  \/ op \in pending
                  \/ /\ lastStep' = Step(op.kind, "optimistic",
                                         op.optimistic.id)
                     /\ \A o \in pending : o.optimistic.id < op.optimistic.id
                     /\ lastStep.id < op.optimistic.id]_vars

\* A call has just been reverted while another, confirmed, is reloading.
C26_Witness ==
    /\ lastStep.step = "catch"
    /\ \E op \in pending : op.stage = "reloading" /\ op.kind # "loadPosts"


\* C27: the step in which a pending call of a handler fails is the end of a
\* call of the provider that made one sendTransaction, which threw: the
\* provider's error is the message it sets for that failure, not empty, the
\* ledger is as it was, and the call is over, so nothing is sent again.
C27_FailureSurfacedOnce ==
    [][\A op \in pending :
           (IsPending(op) /\ op \notin pending')
               => \/ Confirms(op)
                  \/ /\ Reverts(op)
                     /\ \E rejected \in Rejections \ {None} :
                            LET c == blockchainCall(Ledger, error, account,
                                                    blockTime, op.kind,
                                                    op.postId, op.content,
                                                    rejected)
                            IN  /\ c.sends = 1
                                /\ c.thrown = rejected
                                /\ c.receipt = None
                                /\ c.state = Ledger
                                /\ error' = c.error
                     /\ error' # None
                     /\ The(error') # ""]_vars

\* The wallet has just refused a transaction of the viewer that was sent
\* while another call was under way: the error is shown.
C27_Witness ==
    /\ lastStep.step = "catch"
    /\ error = Some("User rejected")
    /\ pending # {}


\* C28 as stated: the step in which a pending call is reverted takes from
\* the posts shown at most the call's own optimistic post and changes at
\* most the post the call acted on; every other entry, reconciled or
\* carrying the delta of another pending call, stays as it is.
C28_AsStated ==
    [][\A op \in pending :
           (IsPending(op) /\ Reverts(op)) =>
               \A i \in DOMAIN viewPosts :
                   viewPosts[i].id # op.optimistic.id =>
                       \E j \in DOMAIN viewPosts' :
                           /\ viewPosts'[j].id = viewPosts[i].id
                           /\ viewPosts[i].id # op.postId
                                  => viewPosts'[j] = viewPosts[i]]_vars


\* C29 as stated: of the pending calls of handleToggleLike, no two are for
\* the same post (the actor is the one connected wallet).
C29_AsStated ==
    \A o1, o2 \in pending :
        (/\ o1.kind = "toggleLike" /\ IsPending(o1)
         /\ o2.kind = "toggleLike" /\ IsPending(o2)
         /\ o1.postId = o2.postId)
            => o1 = o2


\* The posts ps show the optimistic update of the pending call o, as far as
\* they hold the post it acts on: the placeholder post of a createPost is
\* there; the placeholder comment of an addComment is on its post; the
\* count of the post of a toggleLike includes the like added.
ShowsDelta(ps, o) ==
    CASE o.kind = "createPost" -> Find(ps, o.optimistic.id) # None
      [] o.kind = "addComment" ->
             \A e \in Entries(ps) :
                 e.id = o.postId
                     => \E k \in DOMAIN CommentsOf(e) :
                            CommentsOf(e)[k].id = o.optimistic.id
      [] o.kind = "toggleLike" ->
             \A e \in Entries(ps) : e.id = o.postId => e.likes >= 1
      [] OTHER -> TRUE

\* C30 as stated: when a reconciliation completes, the posts shown carry
\* the optimistic update of every call that is still pending.
C30_AsStated ==
    [][\A op \in pending :
           Completes(op) =>
               \A o \in pending' : IsPending(o) => ShowsDelta(viewPosts', o)]_vars


\* A reconciliation under way: a call of getAllPosts that has not resolved.
IsReloading(op) == op.stage = "reloading"

\* C31 as stated, in the form of its consequence for two reconciliations
\* under way together: were the one triggered later to win whatever the
\* order of completion, the posts shown after both would be the same in
\* either order (every read succeeding, the ledger as it is).
C31_AsStated ==
    \A o1, o2 \in pending :
        (IsReloading(o1) /\ IsReloading(o2)) =>
            LET f1 == getAllPosts(Ledger, TRUE, o1.total, {})
                f2 == getAllPosts(Ledger, TRUE, o2.total, {})
            IN  loadPosts_done(loadPosts_done(viewPosts, f1), f2)
                    = loadPosts_done(loadPosts_done(viewPosts, f2), f1)


\* C32 as stated: the posts a reconciliation under way returns, whichever
\* of its reads fail, are ordered by timestamp, newest first, and posts of
\* equal timestamp by id, highest first.
C32_AsStated ==
    \A op \in pending, failed \in SUBSET (1..MaxFeed) :
        IsReloading(op) =>
            LET f == getAllPosts(Ledger, TRUE, op.total, failed)
            IN  \A i, j \in DOMAIN f :
                    i < j => \/ f[i].timestamp > f[j].timestamp
                             \/ /\ f[i].timestamp = f[j].timestamp
                                /\ f[i].id > f[j].id


\* C33 as stated: the step in which handleToggleLike starts leaves the
\* ledger alone and changes the entry of the post in the posts shown: the
\* isLiked its like button is given flips, and the count it is given goes
\* up by one if it was not liked and down by one if it was.
C33_AsStated ==
    [][\A op \in pending' \ pending :
           (op.kind = "toggleLike" /\ IsPending(op)) =>
               /\ UNCHANGED <<ledgerVars, lastCall>>
               /\ DOMAIN viewPosts' = DOMAIN viewPosts
               /\ \A i \in DOMAIN viewPosts :
                      viewPosts[i].id = op.postId =>
                          /\ PostCard_isLiked(viewPosts'[i])
                                 = ~PostCard_isLiked(viewPosts[i])
                          /\ PostCard_likes(viewPosts'[i])
                                 = PostCard_likes(viewPosts[i])
                                   + (IF PostCard_isLiked(viewPosts[i])
                                      THEN -1 ELSE 1)]_vars


\* The entry e shows a post of the ledger: its id, author, content and
\* timestamp are those stored under some key (the fields getPost returns
\* that never change).  Any other entry is an optimistic post.
FromLedger(e) ==
    \E k \in PostKeys :
        /\ e.id = posts[k].id
        /\ e.author = posts[k].author
        /\ e.content = posts[k].content
        /\ e.timestamp = posts[k].timestamp

\* C34: the id of every optimistic post shown is none of the ids the ledger
\* assigns to posts, now or later (0 .. MaxPosts - 1), and the id of every
\* comment shown (reconciliations read none, so they are all optimistic) is
\* none of the ids it assigns to comments.  Date.now() counts milliseconds
\* and is beyond 1000 in the first second already, far above the ids of a
\* ledger that assigns them one by one from 0.
C34_PlaceholdersApart ==
    \A e \in Entries(viewPosts) :
        /\ ~FromLedger(e) => e.id \notin 0..MaxPosts - 1
        /\ \A k \in DOMAIN CommentsOf(e) :
               CommentsOf(e)[k].id \notin 0..MaxComments - 1

\* An optimistic post with an optimistic comment on it is shown while the
\* ledger has assigned post ids.
C34_Witness ==
    /\ nextPostId > 0
    /\ \E e \in Entries(viewPosts) : ~FromLedger(e) /\ CommentsOf(e) # <<>>


\* C35 as stated: every entry of the cached posts shows a post of the
\* ledger and carries no comment (a reconciliation returns none), so the
\* cache holds no optimistic post and no optimistic comment.
C35_AsStated ==
    localStorage # None =>
        \A e \in Entries(The(localStorage)) :
            FromLedger(e) /\ CommentsOf(e) = <<>>


\* C36 as stated: once Home is unmounted, the step in which a pending call
\* is confirmed or fails changes neither the posts shown nor the cache and
\* starts or schedules no reconciliation.
C36_AsStated ==
    [][\A op \in pending :
           (~mounted /\ IsPending(op) /\ op \notin pending') =>
               /\ UNCHANGED <<viewPosts, localStorage>>
               /\ \A o \in pending' \ pending :
                      o.stage \notin {"waiting", "reloading"}]_vars


\* The comments of cs that are also in ds come in the same order in ds.
SameOrder(cs, ds) ==
    \A i, j \in DOMAIN cs, k, l \in DOMAIN ds :
        (i < j /\ ds[k] = cs[i] /\ ds[l] = cs[j]) => k < l

\* C37: getComments of the provider returns the comments of a post in the
\* order of its commentIds; and in every step of the client the comments
\* already shown on a post keep their relative order, and the optimistic
\* comment of a handleAddComment that starts comes last on its post, after
\* the comments shown before.
C37_CommentOrderKept ==
    [][/\ \A p \in 0..MaxPosts - 1 :
              p < nextPostId =>
                  LET cs == blockchainGetComments(Ledger, TRUE, TRUE, p)
                  IN  [k \in DOMAIN cs |-> cs[k].id] = posts[p].commentIds
       /\ \A e \in Entries(viewPosts), e2 \in Entries(viewPosts') :
              e.id = e2.id => SameOrder(CommentsOf(e), CommentsOf(e2))
       /\ \A op \in pending' \ pending :
              (op.kind = "addComment" /\ IsPending(op)) =>
                  \A i \in DOMAIN viewPosts :
                      viewPosts[i].id = op.postId =>
                          CommentsOf(viewPosts'[i])
                              = Append(CommentsOf(viewPosts[i]),
                                       op.optimistic)]_vars

\* A second comment has just been put after the first on a post shown,
\* the first being on the ledger.
C37_Witness ==
    /\ lastStep.handler = "addComment"
    /\ lastStep.step = "optimistic"
    /\ nextCommentId > 0
    /\ \E e \in Entries(viewPosts) : Len(CommentsOf(e)) = 2


\* The reason of a revert by checked arithmetic.
ArithmeticPanic == "Panic(0x11)"

\* C38: in every reachable ledger state a post liked by some actor has
\* likes of at least 1 and no post has likes below 0; so no toggleLike, by
\* any actor on any post, reverts in its decrement, and none has.
C38_UnlikeNeverUnderflows ==
    /\ \A p \in PostKeys :
           /\ posts[p].likes >= 0
           /\ \A u \in Actors : hasLiked[p][u] => posts[p].likes >= 1
    /\ \A p \in PostKeys, u \in Actors :
           p < nextPostId => toggleLike(Ledger, u, p).error # ArithmeticPanic
    /\ lastCall.error # ArithmeticPanic

\* The only like of a post has just been withdrawn: its count is back at 0.
C38_Witness ==
    /\ lastCall.method = "toggleLike"
    /\ lastCall.status = "ok"
    /\ lastCall.events[1].name = "PostUnliked"
    /\ posts[lastCall.events[1].postId].likes = 0


\* The keys of L.posts that a createPost has written: the posts created.
CreatedPosts(L) == {k \in PostKeys : L.posts[k] # ZeroPost}

\* C39: in every reachable ledger state getTotalPosts returns the number of
\* posts created, which every successful createPost raises by one and no
\* other call changes; the posts created are those of keys
\* 0 .. getTotalPosts - 1 and the post under key i has id i; so addComment
\* and toggleLike pass their existence check for exactly the keys of the
\* posts created.
C39_TotalCountsCreatedPosts ==
    LET total == getTotalPosts(Ledger).ret
    IN  /\ getTotalPosts(Ledger).status = "ok"
        /\ total = Cardinality(CreatedPosts(Ledger))
        /\ CreatedPosts(Ledger) = {k \in PostKeys : k < total}
        /\ \A k \in CreatedPosts(Ledger) : posts[k].id = k
        /\ \A c \in Calls(Ledger, blockTime) :
               Cardinality(CreatedPosts(c.r.state)) =
                   IF c.method = "createPost" /\ c.r.status = "ok"
                   THEN total + 1 ELSE total
        /\ \A k \in PostKeys, a \in Actors :
               /\ (k \in CreatedPosts(Ledger)) <=>
                      addComment(Ledger, a, blockTime, k, "Hi").error
                          # "Post does not exist"
               /\ (k \in CreatedPosts(Ledger)) <=>
                      toggleLike(Ledger, a, k).error # "Post does not exist"

\* The second post has just been created: keys 0 and 1 are accepted, key 2
\* is not.
C39_Witness ==
    /\ lastCall.method = "createPost"
    /\ lastCall.status = "ok"
    /\ lastCall.events[1].postId = 1
    /\ CreatedPosts(Ledger) = {0, 1}
    /\ getTotalPosts(Ledger).ret = 2
    /\ addComment(Ledger, "A", blockTime, 2, "Hi").error = "Post does not exist"


\* The comments cs include the one of id.
HasComment(cs, id) == \E k \in DOMAIN cs : cs[k].id = id

\* C40 as stated: when the catch of a handleAddComment has run, the
\* optimistic comment is in no entry of the posts shown and not in the
\* selected post, and the selected post shows the comments of its entry in
\* the posts shown.
C40_AsStated ==
    [][\A op \in pending :
           (op.kind = "addComment" /\ IsPending(op) /\ Reverts(op)) =>
               /\ \A e \in Entries(viewPosts') :
                      ~HasComment(CommentsOf(e), op.optimistic.id)
               /\ selectedPost' # None =>
                      /\ ~HasComment(CommentsOf(The(selectedPost')),
                                     op.optimistic.id)
                      /\ \A e \in Entries(viewPosts') :
                             e.id = The(selectedPost').id =>
                                 CommentsOf(e) = CommentsOf(The(selectedPost'))
      ]_vars


====
